---------------------------- MODULE Spec2Model ----------------------------
(***************************************************************************)
(* HelpConnect: the five page components (DonationForm, HelpRequestForm,   *)
(* Profile, Donations, HelpRequests) as one state machine.  One page is    *)
(* mounted per behaviour (chosen in Init).  Every handler is one action    *)
(* up to its next await; the continuation after the await is the action    *)
(* that consumes the backend's answer.                                     *)
(*                                                                         *)
(* toasts, sent and logged are the effects of the LAST step only: the      *)
(* toast calls, the backend requests issued and the console.error calls    *)
(* made by the step that led to the current state (every step resets       *)
(* them).                                                                  *)
(*                                                                         *)
(* Strings the code inspects (trim, toLowerCase, includes) are sequences   *)
(* of one-character strings; messages and codes are TLA+ strings.          *)
(***************************************************************************)
EXTENDS Integers, Sequences, FiniteSets, TLC

VARIABLES
  page,             \* the mounted page component
  route,            \* page while mounted, else the route navigate() went to
  user,             \* useAuth().user: NoUser or an account id
  authLoading,      \* useAuth().loading
  toasts,           \* toast calls of the last step
  sent,             \* backend requests issued by the last step
  logged,           \* console.error calls of the last step
  formData,         \* forms: useState formData
  fLoading,         \* forms: useState loading
  fAwait,           \* forms: handleSubmit is suspended at its await
  donations,        \* Profile: useState donations (ids, display order)
  requests,         \* Profile: useState requests
  pLoading,         \* Profile: useState loading
  pError,           \* Profile: useState error
  dbDonations,      \* backend: ids of the user's rows in table donations
  dbRequests,       \* backend: ids of the user's rows in table help_requests
  pending,          \* Profile: suspended handler invocations (closures)
  searchQuery,      \* listing: useState searchQuery
  selectedCategory, \* listing: useState selectedCategory
  rows,             \* listing: useState donations / requests (with userName)
  lLoading,         \* listing: useState loading
  lError,           \* listing: useState error
  lFetch            \* listing: the suspended fetchDonations / fetchRequests

authVars == <<user, authLoading>>
outVars == <<toasts, sent, logged>>
formVars == <<formData, fLoading, fAwait>>
profileVars == <<donations, requests, pLoading, pError, dbDonations, dbRequests, pending>>
listVars == <<searchQuery, selectedCategory, rows, lLoading, lError, lFetch>>
vars == <<page, route, authVars, outVars, formVars, profileVars, listVars>>

----------------------------------------------------------------------------
(* Bounds *)

\* longest text typed into a form field
MaxLen == 2

FormPages == {"DonationForm", "HelpRequestForm"}
ListPages == {"Donations", "HelpRequests"}
Pages == FormPages \cup {"Profile"} \cup ListPages

NoUser == "null"
Users == {"u1", "u2"}
Null == "null"

\* outcomes of one awaited backend call: no error, an error object with a
\* code, or a rejected promise
Ok == "ok"
Throw == "throw"
ErrorCodes == {"23503", "42501", "PGRST301"}

FormChars == {" ", "a"}

RECURSIVE SeqsUpTo(_, _)
SeqsUpTo(S, n) ==
  IF n = 0 THEN {<<>>}
  ELSE LET shorter == SeqsUpTo(S, n - 1)
       IN  shorter \cup {Append(s, c) : s \in {t \in shorter : Len(t) = n - 1}, c \in S}

Texts == SeqsUpTo(FormChars, MaxLen)

----------------------------------------------------------------------------
(* String.prototype.trim *)

RECURSIVE TrimStart(_)
TrimStart(s) ==
  IF s = <<>> THEN <<>>
  ELSE IF Head(s) = " " THEN TrimStart(Tail(s)) ELSE s

RECURSIVE TrimEnd(_)
TrimEnd(s) ==
  IF s = <<>> THEN <<>>
  ELSE IF s[Len(s)] = " " THEN TrimEnd(SubSeq(s, 1, Len(s) - 1)) ELSE s

Trim(s) == TrimEnd(TrimStart(s))

\* JavaScript truthiness of a text (a sequence of characters): non-empty
Truthy(s) == s # <<>>

\* JavaScript truthiness of a select value, a name or null
TruthyStr(v) == v # "" /\ v # "null"

----------------------------------------------------------------------------
(* Forms: DonationForm and HelpRequestForm *)

\* the account signed in on a form page
FormUsers == {"u1"}
FormCategories == {"", "Food", "Other"}
FormUrgencies == {"", "high"}

Err(msg) == [kind |-> "error", msg |-> msg]
Success(msg) == [kind |-> "success", msg |-> msg]

InitialFormData(p) ==
  IF p = "DonationForm"
  THEN [title |-> <<>>, category |-> "", description |-> <<>>, location |-> <<>>]
  ELSE [title |-> <<>>, category |-> "", description |-> <<>>, location |-> <<>>,
        urgency |-> ""]

\* faulty variant of SignInMsg: the fields are checked before the user
SignInMsgAfterValidation(p) == "Please enter a title"

SignInMsg(p) ==
  IF p = "DonationForm" THEN "Please sign in to submit a donation"
  ELSE "Please sign in to submit a help request"

\* faulty variant of ValidationError: the title is checked without trim()
ValidationErrorNoTrim(p, fd) ==
  IF ~Truthy(fd.title) THEN "Please enter a title"
  ELSE IF ~TruthyStr(fd.category) THEN "Please select a category"
  ELSE IF ~Truthy(Trim(fd.description)) THEN "Please enter a description"
  ELSE IF ~Truthy(Trim(fd.location)) THEN "Please enter a location"
  ELSE IF p = "HelpRequestForm" /\ ~TruthyStr(fd.urgency)
       THEN "Please select an urgency level"
  ELSE Null

\* faulty variant of ValidationError: the description is checked before the category
ValidationErrorReordered(p, fd) ==
  IF ~Truthy(Trim(fd.title)) THEN "Please enter a title"
  ELSE IF ~Truthy(Trim(fd.description)) THEN "Please enter a description"
  ELSE IF ~TruthyStr(fd.category) THEN "Please select a category"
  ELSE IF ~Truthy(Trim(fd.location)) THEN "Please enter a location"
  ELSE IF p = "HelpRequestForm" /\ ~TruthyStr(fd.urgency)
       THEN "Please select an urgency level"
  ELSE Null

\* the message of the first failing check of handleSubmit, in the order of
\* the code, or Null when every check passes
ValidationError(p, fd) ==
  IF ~Truthy(Trim(fd.title)) THEN "Please enter a title"
  ELSE IF ~TruthyStr(fd.category) THEN "Please select a category"
  ELSE IF ~Truthy(Trim(fd.description)) THEN "Please enter a description"
  ELSE IF ~Truthy(Trim(fd.location)) THEN "Please enter a location"
  ELSE IF p = "HelpRequestForm" /\ ~TruthyStr(fd.urgency)
       THEN "Please select an urgency level"
  ELSE Null

FormTable(p) == IF p = "DonationForm" THEN "donations" ELSE "help_requests"

\* faulty variant of InsertRow: the title is sent as typed
InsertRowUntrimmed(p, u, fd) ==
  IF p = "DonationForm"
  THEN [user_id |-> u, title |-> fd.title, description |-> Trim(fd.description),
        category |-> fd.category, location |-> Trim(fd.location)]
  ELSE [user_id |-> u, title |-> fd.title, description |-> Trim(fd.description),
        category |-> fd.category, location |-> Trim(fd.location),
        urgency |-> fd.urgency]

InsertRow(p, u, fd) ==
  IF p = "DonationForm"
  THEN [user_id |-> u, title |-> Trim(fd.title), description |-> Trim(fd.description),
        category |-> fd.category, location |-> Trim(fd.location)]
  ELSE [user_id |-> u, title |-> Trim(fd.title), description |-> Trim(fd.description),
        category |-> fd.category, location |-> Trim(fd.location),
        urgency |-> fd.urgency]

InsertRequest(p, u, fd) == [op |-> "insert", table |-> FormTable(p), row |-> InsertRow(p, u, fd)]

\* faulty variant of InsertErrorMsg: the two codes are compared the wrong way round
InsertErrorMsgSwapped(p, code) ==
  IF code = "42501" THEN "User profile not found. Please try logging out and back in."
  ELSE IF code = "23503" THEN "Permission denied. Please ensure you're logged in."
  ELSE IF p = "DonationForm" THEN "Failed to submit donation. Please try again."
  ELSE "Failed to submit help request. Please try again."

InsertErrorMsg(p, code) ==
  IF code = "23503" THEN "User profile not found. Please try logging out and back in."
  ELSE IF code = "42501" THEN "Permission denied. Please ensure you're logged in."
  ELSE IF p = "DonationForm" THEN "Failed to submit donation. Please try again."
  ELSE "Failed to submit help request. Please try again."

InsertSuccessMsg(p) ==
  IF p = "DonationForm" THEN "Donation submitted successfully!"
  ELSE "Help request submitted successfully!"

\* faulty variant of SuccessRoute: the help request form keeps the donation form's route
SuccessRouteCopied(p) == "/donation-success"

SuccessRoute(p) == IF p = "DonationForm" THEN "/donation-success" ELSE "/request-success"

InsertLogTag(p) == IF p = "DonationForm" THEN "Donation error:" ELSE "Help request error:"

\* faulty variant of UnexpectedMsg: the catch block reuses the message of a rejected insert
UnexpectedMsgAsRejected == "Failed to submit donation. Please try again."

UnexpectedMsg == "An unexpected error occurred. Please try again."

\* onChange / onValueChange of one form control
SetField(f, v) ==
  /\ page \in FormPages /\ route = page
  /\ f \in DOMAIN formData
  /\ formData' = [formData EXCEPT ![f] = v]
  /\ toasts' = <<>> /\ sent' = <<>> /\ logged' = <<>>
  /\ UNCHANGED <<page, route, authVars, fLoading, fAwait, profileVars, listVars>>

\* faulty variant of HandleSubmit: the submit button is not disabled while loading
HandleSubmitNotDisabled ==
  /\ page \in FormPages /\ route = page
  /\ logged' = <<>>
  /\ IF user = NoUser
     THEN /\ toasts' = <<Err(SignInMsg(page))>>
          /\ route' = "/login"
          /\ sent' = <<>>
          /\ UNCHANGED <<fLoading, fAwait>>
     ELSE IF ValidationError(page, formData) # Null
     THEN /\ toasts' = <<Err(ValidationError(page, formData))>>
          /\ sent' = <<>>
          /\ UNCHANGED <<route, fLoading, fAwait>>
     ELSE /\ fLoading' = TRUE
          /\ fAwait' = TRUE
          /\ sent' = <<InsertRequest(page, user, formData)>>
          /\ toasts' = <<>>
          /\ UNCHANGED route
  /\ UNCHANGED <<page, authVars, formData, profileVars, listVars>>

\* handleSubmit from the submit event to its await (or its early return);
\* the submit button is disabled while loading
HandleSubmit ==
  /\ page \in FormPages /\ route = page /\ ~fLoading
  /\ logged' = <<>>
  /\ IF user = NoUser
     THEN /\ toasts' = <<Err(SignInMsg(page))>>
          /\ route' = "/login"
          /\ sent' = <<>>
          /\ UNCHANGED <<fLoading, fAwait>>
     ELSE IF ValidationError(page, formData) # Null
     THEN /\ toasts' = <<Err(ValidationError(page, formData))>>
          /\ sent' = <<>>
          /\ UNCHANGED <<route, fLoading, fAwait>>
     ELSE /\ fLoading' = TRUE
          /\ fAwait' = TRUE
          /\ sent' = <<InsertRequest(page, user, formData)>>
          /\ toasts' = <<>>
          /\ UNCHANGED route
  /\ UNCHANGED <<page, authVars, formData, profileVars, listVars>>

\* handleSubmit from the answer of the insert to its end (finally included)
InsertReturns(r) ==
  /\ page \in FormPages /\ fAwait
  /\ fAwait' = FALSE
  /\ fLoading' = FALSE
  /\ sent' = <<>>
  /\ IF r = Throw
     THEN /\ toasts' = <<Err(UnexpectedMsg)>>
          /\ logged' = <<"Unexpected error:">>
          /\ UNCHANGED route
     ELSE IF r # Ok
     THEN /\ toasts' = <<Err(InsertErrorMsg(page, r))>>
          /\ logged' = <<InsertLogTag(page)>>
          /\ UNCHANGED route
     ELSE /\ toasts' = <<Success(InsertSuccessMsg(page))>>
          /\ logged' = <<>>
          /\ route' = SuccessRoute(page)
  /\ UNCHANGED <<page, authVars, formData, profileVars, listVars>>

FormNext ==
  \/ \E f \in {"title", "description", "location"}, v \in Texts : SetField(f, v)
  \/ \E v \in FormCategories : SetField("category", v)
  \/ \E v \in FormUrgencies : SetField("urgency", v)
  \/ HandleSubmit
  \/ \E r \in {Ok, Throw} \cup ErrorCodes : InsertReturns(r)

----------------------------------------------------------------------------
(* Backend answers.  st: "none" (not answered yet), "ok", "error" (an      *)
(* error object with a code) or "throw" (the awaited promise rejects).     *)

NoRes == [st |-> "none", code |-> "", data |-> <<>>]
OkRes(d) == [st |-> "ok", code |-> "", data |-> d]
ErrRes(c) == [st |-> "error", code |-> c, data |-> <<>>]
ThrowRes == [st |-> "throw", code |-> "", data |-> <<>>]

FailRes == {ErrRes(c) : c \in ErrorCodes} \cup {ThrowRes}

----------------------------------------------------------------------------
(* Profile *)

\* ids of the rows the account owns in table donations and in table
\* help_requests when the page is mounted
DonationIds == {1, 2}
RequestIds == {1}
\* handler invocations suspended at an await at the same time
MaxPending == 2

Tables == {"donations", "help_requests"}
TableIds(table) == IF table = "donations" THEN DonationIds ELSE RequestIds
ProfileUsers == {"u1"}

\* failures of a select (its error code is not inspected) and of a delete
\* (the permission code and one other)
SelectFailRes == {ErrRes("PGRST301"), ThrowRes}
DeleteFailRes == {ErrRes("42501"), ErrRes("23503"), ThrowRes}

\* .order("created_at", { ascending: false }): a larger id is a newer row
RECURSIVE Descending(_)
Descending(S) ==
  IF S = {} THEN <<>>
  ELSE LET m == CHOOSE x \in S : \A y \in S : y <= x
       IN  <<m>> \o Descending(S \ {m})

\* Array.prototype.filter((d) => d.id !== id)
RECURSIVE Without(_, _)
Without(list, id) ==
  IF list = <<>> THEN <<>>
  ELSE IF Head(list) = id THEN Without(Tail(list), id)
  ELSE <<Head(list)>> \o Without(Tail(list), id)

Members(list) == {list[i] : i \in 1..Len(list)}

ProfileLoadMsg == "Failed to load your data. Please try refreshing the page."
DeleteUnexpectedMsg == "An unexpected error occurred"

\* faulty variant of DeleteErrorMsg: the permission code is not singled out
DeleteErrorMsgGeneric(table, code) ==
  IF table = "donations" THEN "Failed to delete donation" ELSE "Failed to delete request"

DeleteErrorMsg(table, code) ==
  IF table = "donations"
  THEN IF code = "42501" THEN "You don't have permission to delete this donation"
       ELSE "Failed to delete donation"
  ELSE IF code = "42501" THEN "You don't have permission to delete this request"
       ELSE "Failed to delete request"

DeleteSuccessMsg(table) ==
  IF table = "donations" THEN "Donation deleted successfully"
  ELSE "Request deleted successfully"

DeleteLogTag(table) ==
  IF table = "donations" THEN "Delete donation error:" ELSE "Delete request error:"

\* what the Profile component renders
ProfileView ==
  IF authLoading \/ pLoading THEN "loading"
  ELSE IF pError # Null THEN "error"
  ELSE "content"

\* faulty variant of SelectRequest: the select has no .eq("user_id", user.id)
SelectRequestUnfiltered(table, u) == [op |-> "select", table |-> table, user_id |-> "*"]

SelectRequest(table, u) == [op |-> "select", table |-> table, user_id |-> u]
DeleteRequest(table, id) == [op |-> "delete", table |-> table, id |-> id]

\* a suspended fetchUserData: the answers to its two requests so far
FetchOp == [kind |-> "fetch", table |-> "", id |-> 0, closure |-> <<>>,
            dRes |-> NoRes, rRes |-> NoRes]
\* a suspended handleDeleteDonation / handleDeleteRequest: its argument, the
\* list of the render it was created in, and the answer (in dRes) so far
DeleteOp(table, id, list) ==
  [kind |-> "delete", table |-> table, id |-> id, closure |-> list,
   dRes |-> NoRes, rRes |-> NoRes]

\* fetchUserData from its call to the await of Promise.all; u is the user of
\* the render whose closure runs
FetchUserData(u) ==
  IF u = NoUser
  THEN /\ sent' = <<>>
       /\ UNCHANGED <<pError, pending>>
  ELSE /\ pError' = Null
       /\ sent' = <<SelectRequest("donations", u), SelectRequest("help_requests", u)>>
       /\ pending' = pending \cup {FetchOp}

\* useAuth delivers a new value (session resolved, token refreshed, signed
\* out) and the effect of lines 49-57 runs
AuthChange(u) ==
  /\ page = "Profile" /\ route = page
  /\ u # NoUser => (Cardinality(pending) < MaxPending /\ FetchOp \notin pending)
  /\ user' = u /\ authLoading' = FALSE
  /\ toasts' = <<>> /\ logged' = <<>>
  /\ IF u = NoUser
     THEN /\ route' = "/login"
          /\ sent' = <<>>
          /\ UNCHANGED <<pError, pending>>
     ELSE /\ FetchUserData(u)
          /\ UNCHANGED route
  /\ UNCHANGED <<page, formVars, donations, requests, pLoading, dbDonations,
                 dbRequests, listVars>>

\* the Try Again button of the error panel
ProfileTryAgain ==
  /\ page = "Profile" /\ route = page
  /\ ProfileView = "error"
  /\ Cardinality(pending) < MaxPending
  /\ FetchOp \notin pending
  /\ FetchUserData(user)
  /\ toasts' = <<>> /\ logged' = <<>>
  /\ UNCHANGED <<page, route, authVars, formVars, donations, requests, pLoading,
                 dbDonations, dbRequests, listVars>>

\* Promise.all settles: both answers are in, or one request rejected
FetchSettled(op) ==
  \/ op.dRes.st = "throw"
  \/ op.rRes.st = "throw"
  \/ (op.dRes # NoRes /\ op.rRes # NoRes)

\* the backend answers one of the two select requests of a fetchUserData
\* with the rows it holds at that moment, or fails
BackendSelect(op, table, res) ==
  /\ page = "Profile" /\ route = page
  /\ op \in pending /\ op.kind = "fetch"
  /\ ~FetchSettled(op)
  /\ IF table = "donations"
     THEN /\ op.dRes = NoRes
          /\ res \in {OkRes(Descending(dbDonations))} \cup SelectFailRes
          /\ pending' = (pending \ {op}) \cup {[op EXCEPT !.dRes = res]}
     ELSE /\ op.rRes = NoRes
          /\ res \in {OkRes(Descending(dbRequests))} \cup SelectFailRes
          /\ pending' = (pending \ {op}) \cup {[op EXCEPT !.rRes = res]}
  /\ toasts' = <<>> /\ sent' = <<>> /\ logged' = <<>>
  /\ UNCHANGED <<page, route, authVars, formVars, donations, requests, pLoading,
                 pError, dbDonations, dbRequests, listVars>>

\* Promise.all rejected: the catch block runs without either error check
FetchRejected(op) == op.dRes = ThrowRes \/ op.rRes = ThrowRes

\* faulty variant of FetchErrorTag: the check of requestsRes.error is missing
FetchErrorTagDonationsOnly(op) ==
  IF op.dRes.st = "error" THEN "Donations fetch error:" ELSE Null

\* the two error checks after Promise.all: the tag logged by the first one
\* that throws, or Null when neither answer carries an error
FetchErrorTag(op) ==
  IF op.dRes.st = "error" THEN "Donations fetch error:"
  ELSE IF op.rRes.st = "error" THEN "Requests fetch error:"
  ELSE Null

\* fetchUserData from the settling of Promise.all to its end
FetchReturns(op) ==
  /\ page = "Profile" /\ route = page
  /\ op \in pending /\ op.kind = "fetch"
  /\ FetchSettled(op)
  /\ pending' = pending \ {op}
  /\ pLoading' = FALSE
  /\ toasts' = <<>> /\ sent' = <<>>
  /\ IF FetchRejected(op)
     THEN /\ pError' = ProfileLoadMsg
          /\ logged' = <<"Profile data fetch error:">>
          /\ UNCHANGED <<donations, requests>>
     ELSE IF FetchErrorTag(op) # Null
     THEN /\ pError' = ProfileLoadMsg
          /\ logged' = <<FetchErrorTag(op), "Profile data fetch error:">>
          /\ UNCHANGED <<donations, requests>>
     ELSE /\ donations' = op.dRes.data
          /\ requests' = op.rRes.data
          /\ logged' = <<>>
          /\ UNCHANGED pError
  /\ UNCHANGED <<page, route, authVars, formVars, dbDonations, dbRequests, listVars>>

DisplayedList(table) == IF table = "donations" THEN donations ELSE requests

\* the Delete button of a card, confirmed in the dialog: handleDeleteDonation
\* or handleDeleteRequest of the current render, from its call to its await
ClickDelete(table, id) ==
  /\ page = "Profile" /\ route = page
  /\ ProfileView = "content"
  /\ id \in Members(DisplayedList(table))
  /\ Cardinality(pending) < MaxPending
  /\ DeleteOp(table, id, DisplayedList(table)) \notin pending
  /\ pending' = pending \cup {DeleteOp(table, id, DisplayedList(table))}
  /\ sent' = <<DeleteRequest(table, id)>>
  /\ toasts' = <<>> /\ logged' = <<>>
  /\ UNCHANGED <<page, route, authVars, formVars, donations, requests, pLoading,
                 pError, dbDonations, dbRequests, listVars>>

\* the backend answers a delete request: it deletes the row (a delete that
\* matches no row is no error), or fails and deletes nothing
BackendDelete(op, res) ==
  /\ page = "Profile" /\ route = page
  /\ op \in pending /\ op.kind = "delete" /\ op.dRes = NoRes
  /\ res \in {OkRes(<<>>)} \cup DeleteFailRes
  /\ pending' = (pending \ {op}) \cup {[op EXCEPT !.dRes = res]}
  /\ IF res.st = "ok" /\ op.table = "donations"
     THEN dbDonations' = dbDonations \ {op.id} /\ UNCHANGED dbRequests
     ELSE IF res.st = "ok"
     THEN dbRequests' = dbRequests \ {op.id} /\ UNCHANGED dbDonations
     ELSE UNCHANGED <<dbDonations, dbRequests>>
  /\ toasts' = <<>> /\ sent' = <<>> /\ logged' = <<>>
  /\ UNCHANGED <<page, route, authVars, formVars, donations, requests, pLoading,
                 pError, listVars>>

\* the list a successful delete hands to setDonations / setRequests: the
\* list of the handler's own render without the deleted id
AfterDelete(op) == Without(op.closure, op.id)

\* handleDeleteDonation / handleDeleteRequest from the answer to its end
DeleteReturns(op) ==
  /\ page = "Profile" /\ route = page
  /\ op \in pending /\ op.kind = "delete" /\ op.dRes # NoRes
  /\ pending' = pending \ {op}
  /\ sent' = <<>>
  /\ IF op.dRes.st = "throw"
     THEN /\ toasts' = <<Err(DeleteUnexpectedMsg)>>
          /\ logged' = <<"Unexpected delete error:">>
          /\ UNCHANGED <<donations, requests>>
     ELSE IF op.dRes.st = "error"
     THEN /\ toasts' = <<Err(DeleteErrorMsg(op.table, op.dRes.code))>>
          /\ logged' = <<DeleteLogTag(op.table)>>
          /\ UNCHANGED <<donations, requests>>
     ELSE /\ toasts' = <<Success(DeleteSuccessMsg(op.table))>>
          /\ logged' = <<>>
          /\ IF op.table = "donations"
             THEN donations' = AfterDelete(op) /\ UNCHANGED requests
             ELSE requests' = AfterDelete(op) /\ UNCHANGED donations
  /\ UNCHANGED <<page, route, authVars, formVars, pLoading, pError, dbDonations,
                 dbRequests, listVars>>

ProfileNext ==
  \/ \E u \in ProfileUsers \cup {NoUser} : AuthChange(u)
  \/ ProfileTryAgain
  \/ \E op \in pending, t \in Tables :
       \E res \in {OkRes(Descending(S)) : S \in SUBSET TableIds(t)} \cup SelectFailRes :
         BackendSelect(op, t, res)
  \/ \E op \in pending : FetchReturns(op)
  \/ \E t \in Tables : \E id \in TableIds(t) : ClickDelete(t, id)
  \/ \E op \in pending, res \in {OkRes(<<>>)} \cup DeleteFailRes : BackendDelete(op, res)
  \/ \E op \in pending : DeleteReturns(op)

----------------------------------------------------------------------------
(* Listing pages: Donations and HelpRequests *)

\* rows one fetch returns
MaxListRows == 2
\* longest search query typed
MaxQueryLen == 1

ListChars == {"a", "A", "b"}
Queries == SeqsUpTo(ListChars, MaxQueryLen)
ListCategories == {"All", "Food", "Other"}

\* a nullable text column
NullText == [null |-> TRUE, text |-> <<>>]
Text(t) == [null |-> FALSE, text |-> t]

Row(id, title, description, category, uid) ==
  [id |-> id, title |-> title, description |-> description, category |-> category,
   user_id |-> uid]

\* the rows the backend may hold
RowUniverse ==
  { Row(1, <<"B">>, NullText, "Food", "u1"),
    Row(2, <<"b">>, Text(<<"b", "A">>), "Other", "u1"),
    Row(3, <<"a">>, Text(<<>>), "Food", "u2"),
    Row(4, <<"A", "b">>, Text(<<"B">>), "Other", "u2") }

NoRepeat(s) == \A i, j \in 1..Len(s) : s[i] = s[j] => i = j

RowLists == {s \in SeqsUpTo(RowUniverse, MaxListRows) : NoRepeat(s)}

FullNames == {Null, "", "Ann", "Bob"}

\* the answers to .from("profiles").select("id, full_name").in("id", ids):
\* at most one profile per requested id
ProfileSets(ids) ==
  LET wanted == Members(ids)
      picks == [wanted -> FullNames \cup {"(no row)"}]
  IN  {{[id |-> u, full_name |-> f[u]] : u \in {w \in wanted : f[w] # "(no row)"}} :
        f \in picks}

\* String.prototype.toLowerCase
LowerChar(c) == IF c = "A" THEN "a" ELSE IF c = "B" THEN "b" ELSE c
ToLowerCase(s) == [i \in 1..Len(s) |-> LowerChar(s[i])]

\* String.prototype.includes
Includes(hay, needle) ==
  \E i \in 1..(Len(hay) - Len(needle) + 1) : SubSeq(hay, i, i + Len(needle) - 1) = needle

\* faulty variant of MatchesSearch: the comparison is case-sensitive
MatchesSearchCaseSensitive(r, q) ==
  \/ Includes(r.title, q)
  \/ IF r.description.null THEN FALSE ELSE Includes(r.description.text, q)

\* the callback of filteredDonations / filteredRequests
MatchesSearch(r, q) ==
  \/ Includes(ToLowerCase(r.title), ToLowerCase(q))
  \/ IF r.description.null THEN FALSE
     ELSE Includes(ToLowerCase(r.description.text), ToLowerCase(q))

\* faulty variant of MatchesCategory: "All" is compared like any other category
MatchesCategoryNoAll(r, c) == r.category = c

MatchesCategory(r, c) == c = "All" \/ r.category = c

RECURSIVE Filter(_, _, _)
Filter(list, q, c) ==
  IF list = <<>> THEN <<>>
  ELSE IF MatchesSearch(Head(list), q) /\ MatchesCategory(Head(list), c)
       THEN <<Head(list)>> \o Filter(Tail(list), q, c)
       ELSE Filter(Tail(list), q, c)

\* filteredDonations / filteredRequests of the current render
Filtered == Filter(rows, searchQuery, selectedCategory)

\* the four conditional blocks of the render
ShowsError == lError # Null
ShowsLoading == lLoading /\ lError = Null
ShowsGrid == ~lLoading /\ lError = Null /\ Len(Filtered) > 0
\* faulty variant of ShowsEmpty: the empty state does not wait for the fetch
ShowsEmptyWhileLoading == lError = Null /\ Len(Filtered) = 0
ShowsEmpty == ~lLoading /\ lError = Null /\ Len(Filtered) = 0

ListTable(p) == IF p = "Donations" THEN "donations" ELSE "help_requests"
ListStatus(p) == IF p = "Donations" THEN "available" ELSE "open"
\* faulty variant of ListLoadMsg: the catch block sets no message
ListLoadMsgNone(p) == Null

ListLoadMsg(p) ==
  IF p = "Donations" THEN "Failed to load donations. Please try again."
  ELSE "Failed to load help requests. Please try again."
RowsLogTag(p) == IF p = "Donations" THEN "Donations fetch error:" ELSE "Requests fetch error:"

RowsRequest(p) == [op |-> "select", table |-> ListTable(p), status |-> ListStatus(p)]
ProfilesRequest(ids) == [op |-> "select", table |-> "profiles", ids |-> ids]

Idle == [stage |-> "idle", data |-> <<>>, userIds |-> <<>>]
AwaitRows == [stage |-> "rows", data |-> <<>>, userIds |-> <<>>]
AwaitProfiles(data, ids) == [stage |-> "profiles", data |-> data, userIds |-> ids]

\* faulty variant of UserIds: the user_id of every row, repeats included
UserIdsWithRepeats(data) == [i \in 1..Len(data) |-> data[i].user_id]

\* [...new Set(data.map(d => d.user_id))]: first occurrences, in order
RECURSIVE UserIds(_)
UserIds(data) ==
  IF data = <<>> THEN <<>>
  ELSE LET before == UserIds(SubSeq(data, 1, Len(data) - 1))
           u == data[Len(data)].user_id
       IN  IF u \in Members(before) THEN before ELSE Append(before, u)

\* profileMap after the forEach: profileMap.set(p.id, p.full_name || "Anonymous")
ProfileMap(profiles) ==
  [u \in {p.id : p \in profiles} |->
     LET p == CHOOSE x \in profiles : x.id = u
     IN  IF TruthyStr(p.full_name) THEN p.full_name ELSE "Anonymous"]

\* faulty variant of UserName: no default for a user without a profile
UserNameNoFallback(map, u) == IF u \in DOMAIN map THEN map[u] ELSE ""

\* profileMap.get(d.user_id) || "Anonymous"
UserName(map, u) ==
  IF u \in DOMAIN map /\ TruthyStr(map[u]) THEN map[u] ELSE "Anonymous"

\* faulty variant of WithNames: rows whose user has no profile are left out
WithNamesInnerJoin(data, map) ==
  SelectSeq([i \in 1..Len(data) |->
               [id |-> data[i].id, title |-> data[i].title,
                description |-> data[i].description, category |-> data[i].category,
                user_id |-> data[i].user_id,
                userName |-> UserName(map, data[i].user_id)]],
            LAMBDA r : r.user_id \in DOMAIN map)

\* data.map(d => ({ ...d, userName: ... }))
WithNames(data, map) ==
  [i \in 1..Len(data) |->
     [id |-> data[i].id, title |-> data[i].title, description |-> data[i].description,
      category |-> data[i].category, user_id |-> data[i].user_id,
      userName |-> UserName(map, data[i].user_id)]]

EmptyMap == [u \in {} |-> ""]

\* onChange of the search input
SetSearchQuery(q) ==
  /\ page \in ListPages
  /\ searchQuery' = q
  /\ toasts' = <<>> /\ sent' = <<>> /\ logged' = <<>>
  /\ UNCHANGED <<page, route, authVars, formVars, profileVars, selectedCategory,
                 rows, lLoading, lError, lFetch>>

\* onClick of a category button
SetSelectedCategory(c) ==
  /\ page \in ListPages
  /\ selectedCategory' = c
  /\ toasts' = <<>> /\ sent' = <<>> /\ logged' = <<>>
  /\ UNCHANGED <<page, route, authVars, formVars, profileVars, searchQuery,
                 rows, lLoading, lError, lFetch>>

\* faulty variant of ListTryAgain: the fetch does not clear the error
ListTryAgainKeepsError ==
  /\ page \in ListPages
  /\ ShowsError
  /\ lFetch.stage = "idle"
  /\ lLoading' = TRUE
  /\ sent' = <<RowsRequest(page)>>
  /\ lFetch' = AwaitRows
  /\ toasts' = <<>> /\ logged' = <<>>
  /\ UNCHANGED <<page, route, authVars, formVars, profileVars, searchQuery,
                 selectedCategory, rows, lError>>

\* the Try Again button of the error panel: fetchDonations / fetchRequests
\* from its call to the await of the rows request
ListTryAgain ==
  /\ page \in ListPages
  /\ ShowsError
  /\ lFetch.stage = "idle"
  /\ lError' = Null
  /\ lLoading' = TRUE
  /\ sent' = <<RowsRequest(page)>>
  /\ lFetch' = AwaitRows
  /\ toasts' = <<>> /\ logged' = <<>>
  /\ UNCHANGED <<page, route, authVars, formVars, profileVars, searchQuery,
                 selectedCategory, rows>>

\* the fetch from the answer of the rows request to the await of the
\* profiles request, or to its end
RowsReturn(res) ==
  /\ page \in ListPages
  /\ lFetch.stage = "rows"
  /\ toasts' = <<>>
  /\ IF res.st = "throw"
     THEN /\ lError' = ListLoadMsg(page)
          /\ logged' = <<"Fetch error:">>
          /\ lLoading' = FALSE
          /\ lFetch' = Idle
          /\ sent' = <<>>
          /\ UNCHANGED rows
     ELSE IF res.st = "error"
     THEN /\ lError' = ListLoadMsg(page)
          /\ logged' = <<RowsLogTag(page), "Fetch error:">>
          /\ lLoading' = FALSE
          /\ lFetch' = Idle
          /\ sent' = <<>>
          /\ UNCHANGED rows
     ELSE IF Len(UserIds(res.data)) > 0
     THEN /\ sent' = <<ProfilesRequest(UserIds(res.data))>>
          /\ lFetch' = AwaitProfiles(res.data, UserIds(res.data))
          /\ logged' = <<>>
          /\ UNCHANGED <<rows, lLoading, lError>>
     ELSE /\ rows' = WithNames(res.data, EmptyMap)
          /\ lLoading' = FALSE
          /\ lFetch' = Idle
          /\ sent' = <<>>
          /\ logged' = <<>>
          /\ UNCHANGED lError
  /\ UNCHANGED <<page, route, authVars, formVars, profileVars, searchQuery,
                 selectedCategory>>

\* the fetch from the answer of the profiles request to its end
ProfilesReturn(res) ==
  /\ page \in ListPages
  /\ lFetch.stage = "profiles"
  /\ toasts' = <<>> /\ sent' = <<>>
  /\ lLoading' = FALSE
  /\ lFetch' = Idle
  /\ IF res.st = "throw"
     THEN /\ lError' = ListLoadMsg(page)
          /\ logged' = <<"Fetch error:">>
          /\ UNCHANGED rows
     ELSE IF res.st = "error"
     THEN /\ logged' = <<"Profiles fetch error:">>
          /\ rows' = WithNames(lFetch.data, EmptyMap)
          /\ UNCHANGED lError
     ELSE /\ logged' = <<>>
          /\ rows' = WithNames(lFetch.data, ProfileMap(res.data))
          /\ UNCHANGED lError
  /\ UNCHANGED <<page, route, authVars, formVars, profileVars, searchQuery,
                 selectedCategory>>

ListNext ==
  \/ \E q \in Queries : SetSearchQuery(q)
  \/ \E c \in ListCategories : SetSelectedCategory(c)
  \/ ListTryAgain
  \/ \E res \in {OkRes(d) : d \in RowLists} \cup FailRes : RowsReturn(res)
  \/ \E res \in {OkRes(ps) : ps \in ProfileSets(lFetch.userIds)} \cup FailRes :
       ProfilesReturn(res)

----------------------------------------------------------------------------
(* The state after the page is mounted, and the specifications *)

Init ==
  /\ page \in Pages
  /\ route = page
  /\ toasts = <<>> /\ logged = <<>>
  /\ IF page \in FormPages
     THEN user \in FormUsers \cup {NoUser} /\ authLoading = FALSE
     ELSE user = NoUser /\ authLoading = (page = "Profile")
  /\ formData = IF page \in FormPages THEN InitialFormData(page)
                ELSE InitialFormData("DonationForm")
  /\ fLoading = FALSE /\ fAwait = FALSE
  /\ donations = <<>> /\ requests = <<>>
  /\ pLoading = TRUE /\ pError = Null
  /\ IF page = "Profile"
     THEN dbDonations = TableIds("donations") /\ dbRequests = TableIds("help_requests")
     ELSE dbDonations = {} /\ dbRequests = {}
  /\ pending = {}
  /\ searchQuery = <<>> /\ selectedCategory = "All"
  /\ rows = <<>>
  /\ lLoading = TRUE /\ lError = Null
  \* the mount effect of a listing page has called its fetch
  /\ IF page \in ListPages
     THEN lFetch = AwaitRows /\ sent = <<RowsRequest(page)>>
     ELSE lFetch = Idle /\ sent = <<>>

Next == FormNext \/ ProfileNext \/ ListNext

Spec == Init /\ [][Next]_vars

FormInit == Init /\ page \in FormPages

FormSpec == FormInit /\ [][FormNext]_vars
ProfileInit == Init /\ page = "Profile"

ProfileSpec == ProfileInit /\ [][ProfileNext]_vars
ListInit == Init /\ page \in ListPages

ListSpec == ListInit /\ [][ListNext]_vars

\* a listing page whose backend answers every request it is sent
ListLiveSpec ==
  /\ ListSpec
  /\ WF_vars(\E res \in {OkRes(d) : d \in RowLists} \cup FailRes : RowsReturn(res))
  /\ WF_vars(\E res \in {OkRes(ps) : ps \in ProfileSets(lFetch.userIds)} \cup FailRes :
               ProfilesReturn(res))

\* the three pages that fetch on mount: Profile and the two listings
FetchInit == Init /\ page \notin FormPages

FetchNext == ProfileNext \/ ListNext

FetchSpec == FetchInit /\ [][FetchNext]_vars

----------------------------------------------------------------------------
(* Properties *)

IsBlank(s) == \A i \in 1..Len(s) : s[i] = " "

\* every required field of the form is present: the three texts hold a
\* character other than white space, the selects hold a choice
AllRequiredPresent ==
  /\ ~IsBlank(formData.title) /\ ~IsBlank(formData.description)
  /\ ~IsBlank(formData.location)
  /\ formData.category # ""
  /\ (page = "HelpRequestForm" => formData.urgency # "")

ValidationMsgs ==
  {"Please enter a title", "Please select a category", "Please enter a description",
   "Please enter a location", "Please select an urgency level"}

\* C1: a form step issues a backend request only when every required field
\* is present; a submit (by a signed-in user) with a required field empty or
\* blank shows exactly one validation error toast and issues no request.
C1_NoInsertUnlessComplete ==
  [][(page \in FormPages =>
        /\ (sent' # <<>> => AllRequiredPresent)
        /\ (HandleSubmit /\ ~AllRequiredPresent =>
              /\ sent' = <<>>
              /\ ~fAwait'
              /\ (user # NoUser =>
                    /\ Len(toasts') = 1
                    /\ toasts'[1].kind = "error"
                    /\ toasts'[1].msg \in ValidationMsgs)))]_vars

\* a submit with a white-space-only title was refused
C1_Witness ==
  /\ page \in FormPages /\ user # NoUser
  /\ formData.title = <<" ">>
  /\ toasts = <<Err("Please enter a title")>>
  /\ sent = <<>>

\* C2 (as claimed): a successful delete removes exactly the item with the
\* deleted id from its list as it stands, keeps the other list, and issues
\* no request.
C2_DeleteRemovesExactlyOne ==
  [][(\A op \in pending :
        (DeleteReturns(op) /\ op.dRes.st = "ok") =>
          /\ sent' = <<>>
          /\ (op.table = "donations" =>
                donations' = Without(donations, op.id) /\ requests' = requests)
          /\ (op.table = "help_requests" =>
                requests' = Without(requests, op.id) /\ donations' = donations))]_vars

\* the rows of a table the backend has deleted
Deleted(table) ==
  TableIds(table) \ (IF table = "donations" THEN dbDonations ELSE dbRequests)

\* C3 (as claimed): once every asynchronous operation has completed, no
\* successfully deleted item is in the displayed lists.
C3_DeletedNeverReappears ==
  (page = "Profile" /\ route = page /\ pending = {}) =>
     /\ Members(donations) \cap Deleted("donations") = {}
     /\ Members(requests) \cap Deleted("help_requests") = {}

C4_ExpectedMsgs(code) ==
  IF code = "23503"
  THEN {"User profile not found. Please try logging out and back in."}
  ELSE IF code = "42501"
  THEN {"Permission denied. Please ensure you're logged in."}
  ELSE {"Failed to submit donation. Please try again.",
        "Failed to submit help request. Please try again."}

\* C4: a rejected insert shows exactly one toast, an error toast whose
\* message is chosen by the error code.
C4_InsertErrorByCode ==
  [][(\A c \in ErrorCodes :
        InsertReturns(c) =>
          /\ Len(toasts') = 1
          /\ toasts'[1].kind = "error"
          /\ toasts'[1].msg \in C4_ExpectedMsgs(c))]_vars

\* the help request form has shown the permission message
C4_Witness ==
  /\ page = "HelpRequestForm"
  /\ toasts = <<Err("Permission denied. Please ensure you're logged in.")>>
  /\ ~fLoading

ConfirmationRoutes == {"/donation-success", "/request-success"}

\* C5: a form step navigates to a confirmation route exactly when it is the
\* continuation of an insert answered without error, and then to the route
\* of its own form.
C5_NavigateIffInsertOk ==
  [][(page \in FormPages =>
        /\ (InsertReturns(Ok) =>
              route' = IF page = "DonationForm" THEN "/donation-success"
                       ELSE "/request-success")
        /\ (route' \in ConfirmationRoutes /\ route \notin ConfirmationRoutes =>
              InsertReturns(Ok)))]_vars

\* the help request form has navigated to its confirmation route
C5_Witness == page = "HelpRequestForm" /\ route = "/request-success"

C6_ExpectedMsg(table, code) ==
  IF code = "42501"
  THEN IF table = "donations" THEN "You don't have permission to delete this donation"
       ELSE "You don't have permission to delete this request"
  ELSE IF table = "donations" THEN "Failed to delete donation"
       ELSE "Failed to delete request"

\* C6: the continuation of a rejected delete leaves both lists unchanged and
\* shows exactly one error toast chosen by the code; a click sends the
\* delete request at once, with no other request before it, and leaves the
\* lists unchanged; no step shortens the lists except the continuation of a
\* delete answered without error (which drops the deleted id) and the
\* continuation of a fetch.
C6_DeleteOnlyAfterOk ==
  [][(page = "Profile" =>
        /\ \A op \in pending :
             (DeleteReturns(op) /\ op.dRes.st = "error") =>
               /\ donations' = donations /\ requests' = requests
               /\ toasts' = <<Err(C6_ExpectedMsg(op.table, op.dRes.code))>>
        /\ \A t \in Tables : \A id \in TableIds(t) :
             ClickDelete(t, id) =>
               /\ donations' = donations /\ requests' = requests
               /\ sent' = <<DeleteRequest(t, id)>>
        /\ (donations' # donations \/ requests' # requests) =>
             \/ \E op \in pending : FetchReturns(op)
             \/ \E op \in pending :
                  /\ DeleteReturns(op) /\ op.dRes.st = "ok"
                  /\ op.id \notin Members(IF op.table = "donations" THEN donations'
                                         ELSE requests'))]_vars

\* a delete was refused for lack of permission and the item is still listed
C6_Witness ==
  /\ page = "Profile"
  /\ toasts = <<Err("You don't have permission to delete this donation")>>
  /\ donations # <<>>

SameLetter(x, y) == LowerChar(x) = LowerChar(y)

\* q occurs in s when the case of letters is ignored
OccursIgnoringCase(q, s) ==
  \E k \in 0..(Len(s) - Len(q)) : \A m \in 1..Len(q) : SameLetter(s[k + m], q[m])

C7_Wanted(r) ==
  /\ \/ OccursIgnoringCase(searchQuery, r.title)
     \/ (~r.description.null /\ OccursIgnoringCase(searchQuery, r.description.text))
  /\ (selectedCategory = "All" \/ r.category = selectedCategory)

\* C7: the filtered list holds exactly the rows of the fetched list that
\* match the query (ignoring case, in the title or in a non-null
\* description) and the selected category, in the fetched order; with an
\* empty query and category All it is the whole fetched list.
C7_FilterExact ==
  page \in ListPages =>
    LET keep == {i \in 1..Len(rows) : C7_Wanted(rows[i])}
    IN  /\ Len(Filtered) = Cardinality(keep)
        /\ \E f \in [1..Len(Filtered) -> keep] :
             /\ \A a, b \in 1..Len(Filtered) : a < b => f[a] < f[b]
             /\ \A a \in 1..Len(Filtered) : Filtered[a] = rows[f[a]]
        /\ (searchQuery = <<>> /\ selectedCategory = "All" => Filtered = rows)

\* the grid shows a proper part of the fetched rows for a query that a row
\* with a null description does not match
C7_Witness ==
  /\ page \in ListPages /\ ShowsGrid
  /\ searchQuery = <<"A">>
  /\ Len(Filtered) < Len(rows)
  /\ \E i \in 1..Len(rows) : rows[i].description.null

\* the display name the merge is to give the rows of user u
C8_ExpectedName(u, res) ==
  IF res.st = "ok" /\ \E p \in res.data : p.id = u /\ p.full_name \notin {Null, ""}
  THEN (CHOOSE p \in res.data : p.id = u).full_name
  ELSE "Anonymous"

C8_Merged(data, res) ==
  /\ Len(rows') = Len(data)
  /\ \A i \in 1..Len(data) :
       /\ rows'[i].id = data[i].id /\ rows'[i].title = data[i].title
       /\ rows'[i].description = data[i].description
       /\ rows'[i].category = data[i].category
       /\ rows'[i].user_id = data[i].user_id
       /\ rows'[i].userName = C8_ExpectedName(data[i].user_id, res)

\* C8: a fetch that succeeds stores one entry per fetched row, in order,
\* each with the full_name of the returned profile of its user_id when that
\* is non-empty and with "Anonymous" otherwise (also when the profiles
\* request is answered with an error).
C8_MergeNames ==
  [][(page \in ListPages =>
        /\ \A res \in {OkRes(ps) : ps \in ProfileSets(lFetch.userIds)}
                      \cup {ErrRes(c) : c \in ErrorCodes} :
             ProfilesReturn(res) => C8_Merged(lFetch.data, res)
        /\ (RowsReturn(OkRes(<<>>)) => rows' = <<>>)
        /\ (rows' # rows =>
              \/ RowsReturn(OkRes(<<>>))
              \/ \E res \in {OkRes(ps) : ps \in ProfileSets(lFetch.userIds)}
                            \cup {ErrRes(c) : c \in ErrorCodes} : ProfilesReturn(res)))]_vars

\* a fetched list with a named row and a row without a usable profile
C8_Witness ==
  /\ page \in ListPages /\ ~lLoading /\ lError = Null
  /\ \E i, j \in 1..Len(rows) :
       /\ rows[i].userName = "Ann" /\ rows[j].userName = "Anonymous"
       /\ rows[i].user_id # rows[j].user_id

\* C9: the continuation of fetchUserData replaces both lists when both
\* answers carry no error, and otherwise changes neither list and sets the
\* error message.
C9_FetchAllOrNothing ==
  [][(\A op \in pending :
        FetchReturns(op) =>
          IF op.dRes.st = "ok" /\ op.rRes.st = "ok"
          THEN donations' = op.dRes.data /\ requests' = op.rRes.data
          ELSE /\ donations' = donations /\ requests' = requests
               /\ pError' = "Failed to load your data. Please try refreshing the page.")]_vars

\* a later fetch failed: the error message is set and the lists of the
\* earlier fetch are kept
C9_Witness ==
  /\ page = "Profile"
  /\ pError = "Failed to load your data. Please try refreshing the page."
  /\ donations # <<>> /\ requests # <<>>
  /\ logged = <<"Requests fetch error:", "Profile data fetch error:">>

\* the step is the continuation of a backend call that failed (an error
\* object or a rejected promise)
InsertFailed == \E r \in ErrorCodes \cup {Throw} : InsertReturns(r)
DeleteFailed == \E op \in pending : DeleteReturns(op) /\ op.dRes.st # "ok"
ProfileFetchFailed ==
  \E op \in pending : FetchReturns(op) /\ (op.dRes.st # "ok" \/ op.rRes.st # "ok")
RowsFetchFailed == \E res \in FailRes : RowsReturn(res)
NamesFetchFailed == \E res \in FailRes : ProfilesReturn(res)
NamesFetchError == \E c \in ErrorCodes : ProfilesReturn(ErrRes(c))

HasErrorToast(ts) == \E i \in 1..Len(ts) : ts[i].kind = "error"

\* C10 (as claimed): the continuation of every failed backend call logs the
\* error and shows an error toast.
C10_EveryErrorToasted ==
  [][((InsertFailed \/ DeleteFailed \/ ProfileFetchFailed \/ RowsFetchFailed
         \/ NamesFetchFailed) =>
        logged' # <<>> /\ HasErrorToast(toasts'))]_vars

\* C10 (amended): every failed backend call is logged by its continuation;
\* a failed insert or delete shows exactly one error toast; a failed
\* Profile fetch or listing rows fetch shows no toast and sets the page's
\* error message; a profile-name request answered with an error shows no
\* toast and sets no error message, and one that rejects sets the error
\* message.
C10_ErrorsLoggedAndSurfaced ==
  [][(/\ ((InsertFailed \/ DeleteFailed \/ ProfileFetchFailed \/ RowsFetchFailed
             \/ NamesFetchFailed) => logged' # <<>>)
      /\ ((InsertFailed \/ DeleteFailed) =>
            (Len(toasts') = 1 /\ toasts'[1].kind = "error"))
      /\ (ProfileFetchFailed => (toasts' = <<>> /\ pError' # Null))
      /\ (RowsFetchFailed => (toasts' = <<>> /\ lError' # Null))
      /\ (NamesFetchError => (toasts' = <<>> /\ lError' = lError))
      /\ ((NamesFetchFailed /\ ~NamesFetchError) =>
            (toasts' = <<>> /\ lError' # Null)))]_vars

\* a listing fetch failed: logged, error message set, no toast
C10_Witness ==
  /\ page \in ListPages
  /\ lError # Null
  /\ toasts = <<>>
  /\ logged = <<"Donations fetch error:", "Fetch error:">>


\* the step sends a rows request of a listing page / the two select requests
\* of fetchUserData
SendsRowsFetch == \E i \in 1..Len(sent') : sent'[i] = RowsRequest(page)
SendsUserFetch ==
  \E i \in 1..Len(sent') : sent'[i].op = "select" /\ "user_id" \in DOMAIN sent'[i]

\* the fetch of a listing page ends in failure
ListFetchFailed == RowsFetchFailed \/ (NamesFetchFailed /\ ~NamesFetchError)

\* C11: the continuation of a failed fetch sets the error message, which
\* renders the panel with Try Again, and sends no request; a rows request of
\* a listing page is sent by no step but Try Again, and the selects of
\* fetchUserData by no step but Try Again and the effect on the auth value
\* (the load on mount); Try Again clears the error and sends the request(s)
\* of the first load again; a fetch that then succeeds stores the fetched
\* list and the error panel is not shown.
C11_RetryOnlyByTryAgain ==
  [][(/\ (page \in ListPages =>
            /\ ((lFetch.stage # "idle" /\ ListFetchFailed) =>
                  (ShowsError' /\ sent' = <<>>))
            /\ (SendsRowsFetch => ListTryAgain)
            /\ (ListTryAgain =>
                  (lError # Null /\ lError' = Null /\ sent' = <<RowsRequest(page)>>))
            /\ ((lFetch.stage # "idle" /\ lFetch'.stage = "idle" /\ ~ListFetchFailed) =>
                  /\ ~ShowsError'
                  /\ Len(rows') = Len(lFetch.data)
                  /\ \A i \in 1..Len(rows') : rows'[i].id = lFetch.data[i].id))
      /\ (page = "Profile" =>
            /\ (\A op \in pending :
                  (/\ op.kind = "fetch"
                   /\ (op.dRes.st # "ok" \/ op.rRes.st # "ok")
                   /\ FetchReturns(op)) =>
                    (pError' # Null /\ sent' = <<>> /\ ProfileView' = "error"))
            /\ (SendsUserFetch =>
                  (ProfileTryAgain \/ \E u \in ProfileUsers : AuthChange(u)))
            /\ ((pError # Null /\ ProfileTryAgain) =>
                  /\ pError' = Null
                  /\ sent' = <<SelectRequest("donations", user),
                               SelectRequest("help_requests", user)>>)
            /\ (\A op \in pending :
                  (/\ op.kind = "fetch"
                   /\ op.dRes.st = "ok" /\ op.rRes.st = "ok"
                   /\ pError = Null
                   /\ FetchReturns(op)) =>
                    /\ ProfileView' = "content"
                    /\ donations' = op.dRes.data /\ requests' = op.rRes.data)))]_vars

\* Profile after a failed load: the error was cleared and the two selects
\* were sent again, with nothing else in flight
C11_Witness ==
  /\ page = "Profile" /\ ~authLoading /\ ~pLoading
  /\ donations = <<>> /\ dbDonations = DonationIds
  /\ pError = Null
  /\ pending = {FetchOp}
  /\ sent = <<SelectRequest("donations", user), SelectRequest("help_requests", user)>>

\* the step sends a request to table profiles
SendsProfilesRequest == \E i \in 1..Len(sent') : sent'[i].table = "profiles"

\* C12: while the rows request is awaited no profiles request has been
\* sent; a step sends a profiles request only as the continuation of a rows
\* request answered without error with at least one row, and then exactly
\* one, for the distinct user_id values of the returned rows; the
\* continuation of a rows request that failed or returned no row sends
\* nothing.
C12_ProfilesAfterRows ==
  /\ [](page \in ListPages /\ lFetch.stage = "rows" =>
          \A i \in 1..Len(sent) : sent[i].table # "profiles")
  /\ [][(page \in ListPages =>
          /\ (SendsProfilesRequest =>
                \E d \in RowLists :
                  /\ d # <<>> /\ RowsReturn(OkRes(d))
                  /\ \E ids \in SeqsUpTo(Users, Cardinality(Users)) :
                       /\ NoRepeat(ids)
                       /\ Members(ids) = {d[i].user_id : i \in 1..Len(d)}
                       /\ sent' = <<[op |-> "select", table |-> "profiles", ids |-> ids]>>)
          /\ (\A d \in RowLists : (d # <<>> /\ RowsReturn(OkRes(d))) => SendsProfilesRequest)
          /\ ((RowsFetchFailed \/ RowsReturn(OkRes(<<>>))) => sent' = <<>>))]_vars

\* two fetched rows of one user: the profiles request asks for one id
C12_Witness ==
  /\ page \in ListPages /\ lFetch.stage = "profiles"
  /\ Len(lFetch.data) = 2 /\ Len(lFetch.userIds) = 1
  /\ sent = <<ProfilesRequest(lFetch.userIds)>>

C13_Messages ==
  {"An unexpected error occurred", "An unexpected error occurred. Please try again."}

\* C13: the continuation of an insert or delete call that threw shows
\* exactly one toast, an error toast with the unexpected-error message, does
\* not navigate, and leaves the form data and both Profile lists unchanged.
C13_ThrownIsUnexpected ==
  [][(/\ (InsertReturns(Throw) =>
            /\ Len(toasts') = 1 /\ toasts'[1].kind = "error"
            /\ toasts'[1].msg \in C13_Messages
            /\ route' = route /\ formData' = formData)
      /\ (\A op \in pending :
            (DeleteReturns(op) /\ op.dRes.st = "throw") =>
              /\ Len(toasts') = 1 /\ toasts'[1].kind = "error"
              /\ toasts'[1].msg \in C13_Messages
              /\ route' = route
              /\ donations' = donations /\ requests' = requests))]_vars

\* a delete call threw: the message is shown and the item is still listed
C13_Witness ==
  /\ page = "Profile"
  /\ toasts = <<Err("An unexpected error occurred")>>
  /\ logged = <<"Unexpected delete error:">>
  /\ Len(donations) = 2

\* the step changes the search query or the selected category
FilterChange ==
  \/ \E q \in Queries : SetSearchQuery(q)
  \/ \E c \in ListCategories : SetSelectedCategory(c)

\* C14: a change of the search query or of the selected category sends no
\* request and leaves the fetched list, the loading flag, the error and the
\* fetch in progress as they are; when it leaves the query empty and the
\* category "All", the displayed list is the whole fetched list.
C14_FilterChangesOnlyView ==
  [][(FilterChange =>
        /\ sent' = <<>>
        /\ rows' = rows
        /\ lLoading' = lLoading /\ lError' = lError /\ lFetch' = lFetch
        /\ ((searchQuery' = <<>> /\ selectedCategory' = "All") => Filtered' = rows))]_vars

\* a category is selected that hides one of two fetched rows
C14_Witness ==
  /\ page \in ListPages /\ ~lLoading /\ lError = Null
  /\ selectedCategory = "Food" /\ searchQuery = <<>>
  /\ Len(rows) = 2 /\ Len(Filtered) = 1
  /\ sent = <<>>

\* t is s without its leading and trailing white space
IsTrimOf(t, s) ==
  /\ (t # <<>> => (t[1] # " " /\ t[Len(t)] # " "))
  /\ \E a \in 0..Len(s) :
       /\ a + Len(t) <= Len(s)
       /\ \A i \in 1..Len(t) : s[a + i] = t[i]
       /\ \A i \in 1..Len(s) : (i <= a \/ i > a + Len(t)) => s[i] = " "

\* C15: a form step that sends anything sends exactly one insert, to the
\* table of its form, whose row carries the signed-in account as user_id,
\* the title, description and location of the form without leading and
\* trailing white space, and the category (and urgency) as selected.
C15_InsertPayload ==
  [][((page \in FormPages /\ sent' # <<>>) =>
        /\ Len(sent') = 1
        /\ sent'[1].op = "insert"
        /\ sent'[1].table = (IF page = "DonationForm" THEN "donations" ELSE "help_requests")
        /\ user # NoUser /\ sent'[1].row.user_id = user
        /\ IsTrimOf(sent'[1].row.title, formData.title)
        /\ IsTrimOf(sent'[1].row.description, formData.description)
        /\ IsTrimOf(sent'[1].row.location, formData.location)
        /\ sent'[1].row.category = formData.category
        /\ (IF page = "HelpRequestForm"
            THEN /\ sent'[1].row.urgency = formData.urgency
                 /\ DOMAIN sent'[1].row = {"user_id", "title", "description", "category",
                                           "location", "urgency"}
            ELSE DOMAIN sent'[1].row = {"user_id", "title", "description", "category",
                                        "location"}))]_vars

\* an insert in flight whose typed title began with a space
C15_Witness ==
  /\ page \in FormPages /\ fAwait
  /\ formData.title = <<" ", "a">>
  /\ Len(sent) = 1 /\ sent[1].row.title = <<"a">>

\* a fetchUserData is suspended at its await
UserFetchInFlight == \E op \in pending : op.kind = "fetch"

\* C16 (as claimed): whenever a fetchUserData request is in flight, the
\* Profile page shows the loading indicator.
C16_LoadingWhileFetching ==
  (page = "Profile" /\ route = page /\ UserFetchInFlight) => ProfileView = "loading"

\* C17: on a form page the loading flag is true exactly while handleSubmit
\* is suspended at its insert; a step that sends the insert sets it and
\* finds no insert in flight; the continuation of the insert resets it in
\* every outcome; no other step changes it.
C17_LoadingIffInsertInFlight ==
  /\ [](page \in FormPages => (fLoading <=> fAwait))
  /\ [][(page \in FormPages =>
          /\ (sent' # <<>> => (~fAwait /\ ~fLoading /\ fLoading' /\ fAwait'))
          /\ (\A r \in {Ok, Throw} \cup ErrorCodes :
                InsertReturns(r) => (fLoading /\ ~fLoading' /\ ~fAwait'))
          /\ (fLoading' # fLoading =>
                (sent' # <<>> \/ \E r \in {Ok, Throw} \cup ErrorCodes : InsertReturns(r))))]_vars

\* the insert threw and the loading flag is false again
C17_Witness ==
  /\ page \in FormPages
  /\ toasts = <<Err("An unexpected error occurred. Please try again.")>>
  /\ ~fLoading /\ ~fAwait

\* the views a listing page renders in the current state
ViewsShown ==
  {v \in {"error", "loading", "grid", "empty"} :
     \/ (v = "error" /\ ShowsError)
     \/ (v = "loading" /\ ShowsLoading)
     \/ (v = "grid" /\ ShowsGrid)
     \/ (v = "empty" /\ ShowsEmpty)}

\* C18: a listing page shows exactly one view: the error panel when the
\* error is set, else the loading indicator while loading, else the grid
\* when the filtered list is non-empty, else the empty state.
C18_OneView ==
  page \in ListPages =>
    ViewsShown = {IF lError # Null THEN "error"
                  ELSE IF lLoading THEN "loading"
                  ELSE IF Filtered # <<>> THEN "grid"
                  ELSE "empty"}

\* rows were fetched and the filter hides them all: the empty state alone
C18_Witness ==
  /\ page \in ListPages /\ rows # <<>> /\ Filtered = <<>>
  /\ ViewsShown = {"empty"}

\* the step ends the fetch of a listing page
ListFetchEnds == lFetch.stage # "idle" /\ lFetch'.stage = "idle"

\* the list in local state after the step holds one entry per row of data,
\* in order, each with a display name
C19_Stored(data) ==
  /\ Len(rows') = Len(data)
  /\ \A i \in 1..Len(data) :
       /\ rows'[i].id = data[i].id /\ rows'[i].title = data[i].title
       /\ rows'[i].user_id = data[i].user_id
       /\ rows'[i].userName # ""

\* C19: a fetch in progress eventually ends; the step that ends it leaves
\* loading false and either the error set with the list unchanged, or the
\* error null with the list replaced by the fetched rows; a profiles
\* request answered with an error ends the fetch with the rows stored and
\* no error set.
C19_FetchEnds ==
  /\ ((page \in ListPages /\ lFetch.stage # "idle") ~> (lFetch.stage = "idle" /\ ~lLoading))
  /\ [][(page \in ListPages =>
          /\ (ListFetchEnds =>
                /\ ~lLoading'
                /\ \/ (lError' # Null /\ rows' = rows)
                   \/ /\ lError' = Null
                      /\ \/ \E d \in RowLists : RowsReturn(OkRes(d)) /\ C19_Stored(d)
                         \/ \E res \in {OkRes(ps) : ps \in ProfileSets(lFetch.userIds)}
                                       \cup {ErrRes(c) : c \in ErrorCodes} :
                              ProfilesReturn(res) /\ C19_Stored(lFetch.data))
          /\ (NamesFetchError =>
                (ListFetchEnds /\ lError' = Null /\ C19_Stored(lFetch.data)))
          /\ (ListFetchFailed => (ListFetchEnds /\ lError' # Null /\ rows' = rows)))]_vars

\* the profiles request was answered with an error: rows stored, no error
C19_Witness ==
  /\ page \in ListPages /\ ~lLoading /\ lError = Null /\ lFetch.stage = "idle"
  /\ logged = <<"Profiles fetch error:">>
  /\ Len(rows) = 2 /\ \A i \in 1..Len(rows) : rows[i].userName = "Anonymous"

\* C20: handleSubmit run with no authenticated user sends no request, shows
\* exactly one toast, the sign-in error message of its form (no validation
\* message, whatever the fields hold), navigates to /login, and does not
\* set the loading flag.
C20_NoUserGoesToLogin ==
  [][((HandleSubmit /\ user = NoUser) =>
        /\ sent' = <<>>
        /\ toasts' = <<[kind |-> "error",
                        msg |-> IF page = "DonationForm"
                                THEN "Please sign in to submit a donation"
                                ELSE "Please sign in to submit a help request"]>>
        /\ route' = "/login"
        /\ ~fLoading' /\ ~fAwait')]_vars

\* the help request form, submitted empty with no user, went to /login
C20_Witness ==
  /\ page = "HelpRequestForm" /\ user = NoUser
  /\ formData.title = <<>>
  /\ route = "/login"
  /\ toasts = <<Err("Please sign in to submit a help request")>>

\* the fields of the form in the fixed order, each with whether it is
\* missing and with its validation message
C21_Checks ==
  <<[missing |-> IsBlank(formData.title), msg |-> "Please enter a title"],
    [missing |-> formData.category = "", msg |-> "Please select a category"],
    [missing |-> IsBlank(formData.description), msg |-> "Please enter a description"],
    [missing |-> IsBlank(formData.location), msg |-> "Please enter a location"],
    [missing |-> page = "HelpRequestForm" /\ formData.urgency = "",
     msg |-> "Please select an urgency level"]>>

\* C21: a submit by a signed-in user that validation blocks shows exactly
\* one toast, the error message of the first missing field in the order
\* title, category, description, location, urgency, and leaves the form
\* data and the loading flag unchanged.
C21_FirstFailingField ==
  [][((page \in FormPages /\ HandleSubmit /\ user # NoUser /\ ~AllRequiredPresent) =>
        /\ \E k \in 1..Len(C21_Checks) :
             /\ C21_Checks[k].missing
             /\ \A j \in 1..(k - 1) : ~C21_Checks[j].missing
             /\ toasts' = <<[kind |-> "error", msg |-> C21_Checks[k].msg]>>
        /\ formData' = formData
        /\ fLoading' = fLoading /\ ~fLoading')]_vars

\* category and description are both missing: the category message is shown
C21_Witness ==
  /\ page \in FormPages /\ user # NoUser
  /\ formData.title = <<"a">> /\ formData.category = ""
  /\ formData.description = <<" ">>
  /\ toasts = <<Err("Please select a category")>>
  /\ ~fLoading

\* C22: with no user the Profile page has sent nothing and, once
\* authentication has finished loading, has navigated to /login; the step
\* on which the auth value becomes "no user" navigates to /login and sends
\* nothing; every select the page sends goes to donations or help_requests
\* for a signed-in user and is filtered by that user's id.
C22_FetchOnlyForUser ==
  /\ []((page = "Profile" /\ user = NoUser) =>
          (sent = <<>> /\ (~authLoading => route = "/login")))
  /\ [][(page = "Profile" =>
          /\ (AuthChange(NoUser) => (route' = "/login" /\ sent' = <<>>))
          /\ \A i \in 1..Len(sent') :
               sent'[i].op = "select" =>
                 /\ user' \in ProfileUsers
                 /\ ~authLoading'
                 /\ sent'[i].table \in {"donations", "help_requests"}
                 /\ sent'[i].user_id = user')]_vars

\* the user signed out after the lists were loaded: /login, nothing sent
C22_Witness ==
  /\ page = "Profile" /\ user = NoUser /\ ~authLoading
  /\ route = "/login"
  /\ sent = <<>>
  /\ donations # <<>>

=============================================================================
